---------------------------- MODULE Spec2Model ----------------------------
(***************************************************************************)
(* A model of src/node_server.py: the Block and Blockchain classes.        *)
(*                                                                         *)
(* Python objects are references.  The two kinds of aliasing the code      *)
(* creates are kept:                                                       *)
(*   - list objects that are, or once were, blockchain.                    *)
(*     unconfirmed_transactions live in the heap `lists`; a block built by *)
(*     mine() holds the identity of such a list, not a copy of it;         *)
(*   - a Block object passed to add_block may be one that is already in    *)
(*     the chain; the field `at` of a call frame is its position there.    *)
(*                                                                         *)
(* SHA-256 is modelled as a collision-free digest: a digest keeps the      *)
(* serialised message it was computed from (msg), and its leading hex      *)
(* digits (hex) are a deterministic mix of the serialised fields.          *)
(*                                                                         *)
(* Each request is run by a thread.  A step of the model is one statement  *)
(* of the code (a statement that only touches the thread's own locals is   *)
(* merged with the shared access that follows it).  Spec lets one call run *)
(* at a time (single mutator); SpecConc interleaves the calls.             *)
(***************************************************************************)
EXTENDS Integers, Sequences, FiniteSets, TLC

VARIABLES
    chain,                      \* Blockchain.chain: the accepted Block objects
    unconfirmed_transactions,   \* Blockchain.unconfirmed_transactions: a list identity
    lists,                      \* heap of the list objects that are or were the pool
    pc,                         \* per thread: the statement it is at
    frame,                      \* per thread: the locals of the call it runs
    done,                       \* the call that returned last, until the next call starts
    submitted,                  \* history: every record given to add_new_transaction
    nmine,                      \* history: number of mine() calls started
    nadd                        \* history: number of calls a caller made to add_block or proof_of_work

vars == <<chain, unconfirmed_transactions, lists, pc, frame, done, submitted, nmine, nadd>>

-----------------------------------------------------------------------------
(* Bounds of the model *)

MaxSubmit == 2      \* add_new_transaction calls
MaxMine == 2        \* mine calls
MaxAdd == 1         \* calls of add_block and proof_of_work by a caller other than mine
LeadSpace == 3      \* values the leading hex digits of a digest range over

Threads == {1, 2}        \* request threads
Tx == {1, 2}            \* transaction records (opaque values)
Times == {0, 1}         \* values time.time() returns

(* Blockchain.difficulty *)
difficulty == 2

-----------------------------------------------------------------------------
(* Digests *)

\* no `hash` attribute on the object (Block.__init__ sets none)
NoHash == [hex |-> <<>>, msg |-> <<>>]

\* the string "0", previous_hash of the genesis block
Sentinel == [hex |-> <<0>>, msg |-> <<>>]

RECURSIVE SumSeq(_)
SumSeq(s) == IF s = <<>> THEN 0 ELSE Head(s) + SumSeq(Tail(s))

RECURSIVE HexValue(_)
HexValue(h) == IF h = <<>> THEN 0 ELSE 16 * HexValue(SubSeq(h, 1, Len(h) - 1)) + h[Len(h)]

DigestCode(d) == HexValue(d.hex) + Len(d.hex) + Len(d.msg)

\* the contents of the list a `transactions` field refers to: a list of the
\* heap (id > 0), or a list only this block refers to (held in val)
Contents(tr, L) == IF tr.id > 0 THEN L[tr.id] ELSE tr.val

\* json.dumps(self.__dict__, sort_keys=True): every attribute the object has,
\* `hash` included once it is assigned
Serialize(b, L) ==
    [hash |-> b.hash, index |-> b.index, nonce |-> b.nonce,
     previous_hash |-> b.previous_hash, timestamp |-> b.timestamp,
     transactions |-> Contents(b.transactions, L)]

\* the nonce (modulo LeadSpace) at which the digest of these fields qualifies
Target(s) ==
    (s.index + s.timestamp + SumSeq(s.transactions) + Len(s.transactions)
       + DigestCode(s.previous_hash) + DigestCode(s.hash)) % LeadSpace

LeadValue(s) == (s.nonce + LeadSpace - Target(s)) % LeadSpace

RECURSIVE Pow16(_)
Pow16(n) == IF n = 0 THEN 1 ELSE 16 * Pow16(n - 1)

\* the first `difficulty` characters of the hex digest
LeadDigits(s) ==
    [i \in 1..difficulty |-> (LeadValue(s) \div Pow16(difficulty - i)) % 16]

\* sha256(block_string.encode()).hexdigest()
Sha256Hex(s) == [hex |-> LeadDigits(s), msg |-> <<s>>]

\* Block.compute_hash
compute_hash(b, L) == Sha256Hex(Serialize(b, L))

\* block_hash.startswith('0' * Blockchain.difficulty)
StartsWithZeros(h) ==
    /\ Len(h.hex) >= difficulty
    /\ \A i \in 1..difficulty : h.hex[i] = 0

\* (variant: the difficulty test left out)
is_valid_proof_any_prefix(b, block_hash, L) == block_hash = compute_hash(b, L)

\* (variant: the proof is not compared with the recomputed digest)
is_valid_proof_not_recomputed(b, block_hash, L) == StartsWithZeros(block_hash)

\* Blockchain.is_valid_proof
is_valid_proof(b, block_hash, L) ==
    /\ StartsWithZeros(block_hash)
    /\ block_hash = compute_hash(b, L)

\* Block.__init__
Block(index, transactions, timestamp, previous_hash) ==
    [index |-> index, transactions |-> transactions, timestamp |-> timestamp,
     previous_hash |-> previous_hash, nonce |-> 0, hash |-> NoHash]

\* Blockchain.last_block
last_block == Len(chain)


-----------------------------------------------------------------------------
(* Call frames *)

PrivateList(v) == [id |-> 0, val |-> v]     \* a list object no one else refers to
SharedList(i) == [id |-> i, val |-> <<>>]   \* the list object lists[i]

NoPre == [chain |-> <<>>, lists |-> <<>>, pool |-> 0]

NoBlock == Block(0, PrivateList(<<>>), 0, NoHash)

\* Python values a call returns
PyNone == [type |-> "NoneType", v |-> 0]
PyFalse == [type |-> "bool", v |-> 0]
PyTrue == [type |-> "bool", v |-> 1]
PyInt(n) == [type |-> "int", v |-> n]
PyStr == [type |-> "str", v |-> 1]          \* a hex digest (non-empty string)

IdleFrame ==
    [op |-> "none",             \* the method the thread was asked to run
     last_block |-> 0,          \* mine: position in chain of the object last_block names
     block |-> NoBlock,         \* new_block of mine / block of add_block, while not in chain
     at |-> 0,                  \* position in chain of that object once (or if) it is there
     computed_hash |-> NoHash,  \* proof_of_work: computed_hash
     proof |-> NoHash,          \* mine: proof / add_block: proof
     arg |-> NoBlock,           \* history: the block as it was when add_block was called
     ok |-> "none",             \* what add_block returned to this call: "True", "False"
     snap |-> <<>>,             \* history: the pool's contents when new_block was built
     pre |-> NoPre]             \* history: the shared state when the call started

PreState == [chain |-> chain, lists |-> lists, pool |-> unconfirmed_transactions]

\* the Block object a frame's `block` names
BlockOf(f, ch) == IF f.at > 0 THEN ch[f.at] ELSE f.block

\* the record of a call that returns `value' from frame f, the chain being ch
Returned(f, ch, value) ==
    [op |-> f.op, block |-> BlockOf(f, ch), at |-> f.at, proof |-> f.proof,
     arg |-> f.arg, ok |-> f.ok, snap |-> f.snap, pre |-> f.pre, ret |-> value]

\* no call has returned since the last one started
NoCall == Returned(IdleFrame, <<>>, PyNone)

AllIdle == \A u \in Threads : pc[u] = "idle"

-----------------------------------------------------------------------------
(* Blockchain.__init__ and create_genesis_block *)

\* (variant: the genesis block is numbered 1)
create_genesis_block_index_one(ts) ==
    LET genesis_block == Block(1, PrivateList(<<>>), ts, Sentinel)
    IN  [genesis_block EXCEPT !.hash = compute_hash(genesis_block, <<>>)]

create_genesis_block(ts) ==
    LET genesis_block == Block(0, PrivateList(<<>>), ts, Sentinel)
    IN  [genesis_block EXCEPT !.hash = compute_hash(genesis_block, <<>>)]

Init ==
    /\ chain = <<create_genesis_block(0)>>    \* time counts from construction
    /\ lists = << <<>> >>
    /\ unconfirmed_transactions = 1
    /\ pc = [t \in Threads |-> "idle"]
    /\ frame = [t \in Threads |-> IdleFrame]
    /\ done = NoCall
    /\ submitted = <<>>
    /\ nmine = 0
    /\ nadd = 0

-----------------------------------------------------------------------------
(* Blockchain.add_new_transaction *)

\* (variant: a record equal to a pending one is not appended again)
add_new_transaction_no_duplicates(t, transaction) ==
    /\ pc[t] = "idle"
    /\ Len(submitted) < MaxSubmit
    /\ lists' = [lists EXCEPT ![unconfirmed_transactions] =
                    IF \E i \in 1..Len(@) : @[i] = transaction THEN @
                    ELSE Append(@, transaction)]
    /\ submitted' = Append(submitted, transaction)
    /\ done' = Returned([IdleFrame EXCEPT !.op = "add_new_transaction", !.pre = PreState],
                        chain, PyNone)
    /\ UNCHANGED <<chain, unconfirmed_transactions, pc, frame, nmine, nadd>>

\* self.unconfirmed_transactions.append(transaction)
add_new_transaction(t, transaction) ==
    /\ pc[t] = "idle"
    /\ Len(submitted) < MaxSubmit
    /\ lists' = [lists EXCEPT ![unconfirmed_transactions] = Append(@, transaction)]
    /\ submitted' = Append(submitted, transaction)
    /\ done' = Returned([IdleFrame EXCEPT !.op = "add_new_transaction", !.pre = PreState],
                        chain, PyNone)
    /\ UNCHANGED <<chain, unconfirmed_transactions, pc, frame, nmine, nadd>>

-----------------------------------------------------------------------------
(* Blockchain.mine *)

\* a request thread enters mine()
mine(t) ==
    /\ pc[t] = "idle"
    /\ nmine < MaxMine
    /\ nmine' = nmine + 1
    /\ pc' = [pc EXCEPT ![t] = "mine_108"]
    /\ frame' = [frame EXCEPT ![t] = [IdleFrame EXCEPT !.op = "mine", !.pre = PreState]]
    /\ done' = NoCall
    /\ UNCHANGED <<chain, unconfirmed_transactions, lists, submitted, nadd>>

\* (variant: the empty pool is not tested for)
NothingToMine_never == FALSE

\* not self.unconfirmed_transactions
NothingToMine == lists[unconfirmed_transactions] = <<>>

\* if not self.unconfirmed_transactions: return False
mine_108(t) ==
    /\ pc[t] = "mine_108"
    /\ IF NothingToMine
       THEN /\ pc' = [pc EXCEPT ![t] = "idle"]
            /\ done' = Returned(frame[t], chain, PyFalse)
            /\ frame' = [frame EXCEPT ![t] = IdleFrame]
       ELSE /\ pc' = [pc EXCEPT ![t] = "mine_111"]
            /\ UNCHANGED <<frame, done>>
    /\ UNCHANGED <<chain, unconfirmed_transactions, lists, submitted, nmine, nadd>>

\* last_block = self.last_block
mine_111(t) ==
    /\ pc[t] = "mine_111"
    /\ frame' = [frame EXCEPT ![t].last_block = last_block]
    /\ pc' = [pc EXCEPT ![t] = "mine_112"]
    /\ UNCHANGED <<chain, unconfirmed_transactions, lists, done, submitted, nmine, nadd>>

\* (variant: the index of the tail is reused)
NewBlock_same_index(last, ts) ==
    Block(last.index, SharedList(unconfirmed_transactions), ts, last.hash)

\* (variant: the new block is linked to the block before the tail)
NewBlock_stale_link(last, ts) ==
    Block(last.index + 1, SharedList(unconfirmed_transactions), ts, last.previous_hash)

\* Block(index=last_block.index + 1, transactions=self.unconfirmed_transactions,
\*       timestamp=time.time(), previous_hash=last_block.hash):
\* the block refers to the pool's list object itself
NewBlock(last, ts) ==
    Block(last.index + 1, SharedList(unconfirmed_transactions), ts, last.hash)

\* new_block = Block(...)
mine_112(t) ==
    /\ pc[t] = "mine_112"
    /\ \E ts \in Times :
         frame' = [frame EXCEPT
            ![t].block = NewBlock(chain[frame[t].last_block], ts),
            ![t].snap = lists[unconfirmed_transactions]]
    /\ pc' = [pc EXCEPT ![t] = "pow_52"]
    /\ UNCHANGED <<chain, unconfirmed_transactions, lists, done, submitted, nmine, nadd>>

\* (variant: self.unconfirmed_transactions.clear(), the list object is kept)
mine_118_clear_in_place(t) ==
    /\ pc[t] = "mine_118"
    /\ lists' = [lists EXCEPT ![unconfirmed_transactions] = <<>>]
    /\ pc' = [pc EXCEPT ![t] = "mine_119"]
    /\ UNCHANGED <<chain, unconfirmed_transactions, frame, done, submitted, nmine, nadd>>

\* self.unconfirmed_transactions = []
mine_118(t) ==
    /\ pc[t] = "mine_118"
    /\ lists' = Append(lists, <<>>)
    /\ unconfirmed_transactions' = Len(lists) + 1
    /\ pc' = [pc EXCEPT ![t] = "mine_119"]
    /\ UNCHANGED <<chain, frame, done, submitted, nmine, nadd>>

\* return new_block.index
mine_119(t) ==
    /\ pc[t] = "mine_119"
    /\ pc' = [pc EXCEPT ![t] = "idle"]
    /\ done' = Returned(frame[t], chain, PyInt(BlockOf(frame[t], chain).index))
    /\ frame' = [frame EXCEPT ![t] = IdleFrame]
    /\ UNCHANGED <<chain, unconfirmed_transactions, lists, submitted, nmine, nadd>>

-----------------------------------------------------------------------------
(* Blockchain.proof_of_work, called by mine on its new_block or by a caller *)

\* (variant: the nonce the block has on entry is kept)
pow_52_no_reset(t) ==
    /\ pc[t] = "pow_52"
    /\ frame' = [frame EXCEPT ![t].computed_hash = compute_hash(frame[t].block, lists)]
    /\ pc' = [pc EXCEPT ![t] = "pow_55"]
    /\ UNCHANGED <<chain, unconfirmed_transactions, lists, done, submitted, nmine, nadd>>

\* block.nonce = 0 ; computed_hash = block.compute_hash()
pow_52(t) ==
    /\ pc[t] = "pow_52"
    /\ LET b == [frame[t].block EXCEPT !.nonce = 0]
       IN  frame' = [frame EXCEPT ![t].block = b,
                                  ![t].computed_hash = compute_hash(b, lists)]
    /\ pc' = [pc EXCEPT ![t] = "pow_55"]
    /\ UNCHANGED <<chain, unconfirmed_transactions, lists, done, submitted, nmine, nadd>>

\* while not computed_hash.startswith('0' * Blockchain.difficulty):
\*     block.nonce += 1 ; computed_hash = block.compute_hash()
\* return computed_hash     (mine: proof = ...)
pow_55(t) ==
    /\ pc[t] = "pow_55"
    /\ IF ~StartsWithZeros(frame[t].computed_hash)
       THEN /\ LET b == [frame[t].block EXCEPT !.nonce = @ + 1]
               IN  frame' = [frame EXCEPT ![t].block = b,
                                          ![t].computed_hash = compute_hash(b, lists)]
            /\ UNCHANGED pc
            /\ UNCHANGED done
       ELSE IF frame[t].op = "mine"
            THEN /\ frame' = [frame EXCEPT ![t].proof = frame[t].computed_hash,
                                           ![t].arg = frame[t].block]
                 /\ pc' = [pc EXCEPT ![t] = "add_68"]
                 /\ UNCHANGED done
            ELSE /\ done' = Returned([frame[t] EXCEPT !.proof = frame[t].computed_hash],
                                     chain, PyStr)
                 /\ frame' = [frame EXCEPT ![t] = IdleFrame]
                 /\ pc' = [pc EXCEPT ![t] = "idle"]
    /\ UNCHANGED <<chain, unconfirmed_transactions, lists, submitted, nmine, nadd>>

-----------------------------------------------------------------------------
(* Blockchain.add_block *)

\* the blocks a caller other than mine builds and passes: either index, linked
\* to the tail or not, any nonce
CallerBlocks ==
    { [Block(index, PrivateList(<<1>>), 1, prev) EXCEPT !.nonce = nonce] :
        index \in {0, chain[last_block].index + 1},
        prev \in {Sentinel, chain[last_block].hash},
        nonce \in 0..(LeadSpace - 1) }

\* the proofs passed with block b: its digest, or the digest it has with the
\* next nonce
CallerProofs(b) ==
    { compute_hash(b, lists), compute_hash([b EXCEPT !.nonce = @ + 1], lists) }

\* a caller calls proof_of_work(block) with a Block it built
proof_of_work(t) ==
    /\ pc[t] = "idle"
    /\ nadd < MaxAdd
    /\ nadd' = nadd + 1
    /\ \E b \in CallerBlocks :
         frame' = [frame EXCEPT ![t] =
                     [IdleFrame EXCEPT !.op = "proof_of_work", !.block = b, !.arg = b,
                                       !.pre = PreState]]
    /\ pc' = [pc EXCEPT ![t] = "pow_52"]
    /\ done' = NoCall
    /\ UNCHANGED <<chain, unconfirmed_transactions, lists, submitted, nmine>>

\* a caller calls add_block(block, proof) with a Block it built
add_block(t) ==
    /\ pc[t] = "idle"
    /\ nadd < MaxAdd
    /\ nadd' = nadd + 1
    /\ \E b \in CallerBlocks : \E proof \in CallerProofs(b) :
         frame' = [frame EXCEPT ![t] =
                     [IdleFrame EXCEPT !.op = "add_block", !.block = b, !.arg = b,
                                       !.proof = proof, !.pre = PreState]]
    /\ pc' = [pc EXCEPT ![t] = "add_68"]
    /\ done' = NoCall
    /\ UNCHANGED <<chain, unconfirmed_transactions, lists, submitted, nmine>>

\* a caller calls add_block(block, proof) with a Block object that is in the chain
add_block_again(t) ==
    /\ pc[t] = "idle"
    /\ nadd < MaxAdd
    /\ nadd' = nadd + 1
    /\ \E i \in 1..Len(chain) : \E proof \in {chain[i].hash, compute_hash(chain[i], lists)} :
         frame' = [frame EXCEPT ![t] =
                     [IdleFrame EXCEPT !.op = "add_block", !.at = i, !.arg = chain[i],
                                       !.proof = proof, !.pre = PreState]]
    /\ pc' = [pc EXCEPT ![t] = "add_68"]
    /\ done' = NoCall
    /\ UNCHANGED <<chain, unconfirmed_transactions, lists, submitted, nmine>>

\* add_block returns `result' to its caller: to mine (which drops it), or to
\* the thread's caller
AddBlockReturn(t, f, ch, result) ==
    IF f.op = "mine"
    THEN /\ frame' = [frame EXCEPT ![t] = [f EXCEPT !.ok = result]]
         /\ pc' = [pc EXCEPT ![t] = "mine_118"]
         /\ UNCHANGED done
    ELSE /\ done' = Returned([f EXCEPT !.ok = result], ch,
                             IF result = "True" THEN PyTrue ELSE PyFalse)
         /\ frame' = [frame EXCEPT ![t] = IdleFrame]
         /\ pc' = [pc EXCEPT ![t] = "idle"]

\* (variant: the linkage test left out)
LinkageBroken_never(previous_hash, b) == FALSE

\* previous_hash != block.previous_hash
LinkageBroken(previous_hash, b) == previous_hash # b.previous_hash

\* previous_hash = self.last_block.hash
\* if previous_hash != block.previous_hash: return False
add_68(t) ==
    /\ pc[t] = "add_68"
    /\ LET previous_hash == chain[last_block].hash
       IN  IF LinkageBroken(previous_hash, BlockOf(frame[t], chain))
           THEN AddBlockReturn(t, frame[t], chain, "False")
           ELSE /\ pc' = [pc EXCEPT ![t] = "add_76"]
                /\ UNCHANGED <<frame, done>>
    /\ UNCHANGED <<chain, unconfirmed_transactions, lists, submitted, nmine, nadd>>

\* (variant: block.hash = proof is done before the proof is validated)
add_76_hash_first(t) ==
    /\ pc[t] = "add_76"
    /\ frame[t].at = 0
    /\ LET f == [frame[t] EXCEPT !.block.hash = frame[t].proof]
       IN  IF ~is_valid_proof(frame[t].block, frame[t].proof, lists)
           THEN AddBlockReturn(t, f, chain, "False")
           ELSE /\ pc' = [pc EXCEPT ![t] = "add_80"]
                /\ frame' = [frame EXCEPT ![t] = f]
                /\ UNCHANGED done
    /\ UNCHANGED <<chain, unconfirmed_transactions, lists, submitted, nmine, nadd>>

\* if not self.is_valid_proof(block, proof): return False
add_76(t) ==
    /\ pc[t] = "add_76"
    /\ IF ~is_valid_proof(BlockOf(frame[t], chain), frame[t].proof, lists)
       THEN AddBlockReturn(t, frame[t], chain, "False")
       ELSE /\ pc' = [pc EXCEPT ![t] = "add_79"]
            /\ UNCHANGED <<frame, done>>
    /\ UNCHANGED <<chain, unconfirmed_transactions, lists, submitted, nmine, nadd>>

\* (variant: block.hash is not assigned)
add_79_skipped(t) ==
    /\ pc[t] = "add_79"
    /\ pc' = [pc EXCEPT ![t] = "add_80"]
    /\ UNCHANGED <<chain, frame, unconfirmed_transactions, lists, done, submitted, nmine, nadd>>

\* block.hash = proof
add_79(t) ==
    /\ pc[t] = "add_79"
    /\ IF frame[t].at > 0
       THEN /\ chain' = [chain EXCEPT ![frame[t].at].hash = frame[t].proof]
            /\ UNCHANGED frame
       ELSE /\ frame' = [frame EXCEPT ![t].block.hash = frame[t].proof]
            /\ UNCHANGED chain
    /\ pc' = [pc EXCEPT ![t] = "add_80"]
    /\ UNCHANGED <<unconfirmed_transactions, lists, done, submitted, nmine, nadd>>

\* self.chain.append(block) ; return True
add_80(t) ==
    /\ pc[t] = "add_80"
    /\ chain' = Append(chain, BlockOf(frame[t], chain))
    /\ AddBlockReturn(t, [frame[t] EXCEPT !.at = IF @ > 0 THEN @ ELSE Len(chain) + 1,
                                          !.block = NoBlock],
                      chain', "True")
    /\ UNCHANGED <<unconfirmed_transactions, lists, submitted, nmine, nadd>>

-----------------------------------------------------------------------------
(* The /mine handler *)

\* bool(result): False and 0 are falsy
Truthy(result) == result.v # 0

\* mine_unconfirmed_transactions, given result = blockchain.mine()
mine_unconfirmed_transactions(result) ==
    IF ~Truthy(result) THEN "No transactions to mine"
    ELSE "Block #{} is mined."

-----------------------------------------------------------------------------
(* The requests *)

\* a request handler calls into the blockchain: new_transaction() or
\* mine_unconfirmed_transactions()
Request(t) ==
    \/ \E transaction \in Tx : add_new_transaction(t, transaction)
    \/ mine(t)

\* any caller of the Blockchain class starts a call
Call(t) ==
    \/ Request(t)
    \/ proof_of_work(t)
    \/ add_block(t)
    \/ add_block_again(t)

\* a thread runs the next statement of its call
Step(t) ==
    \/ mine_108(t)
    \/ mine_111(t)
    \/ mine_112(t)
    \/ pow_52(t)
    \/ pow_55(t)
    \/ add_68(t)
    \/ add_76(t)
    \/ add_79(t)
    \/ add_80(t)
    \/ mine_118(t)
    \/ mine_119(t)

\* single mutator: a call starts when no other call is running
Next == \E t \in {1} : (AllIdle /\ Call(t)) \/ Step(t)

Spec == Init /\ [][Next]_vars

\* single mutator, and only the calls the request handlers make
NextRequests == \E t \in {1} : (AllIdle /\ Request(t)) \/ Step(t)

SpecRequests == Init /\ [][NextRequests]_vars

\* the server's request threads interleave at every statement
NextConc == \E t \in Threads : Request(t) \/ Step(t)

SpecConc == Init /\ [][NextConc]_vars

-----------------------------------------------------------------------------
(* Properties *)

\* the pending pool's contents
Pool == lists[unconfirmed_transactions]

\* the transactions of a block of the chain
Transactions(b) == Contents(b.transactions, lists)

\* the three conditions of acceptance, for block b and proof in shared state S
Accepts(b, proof, S) ==
    /\ b.previous_hash = S.chain[Len(S.chain)].hash
    /\ StartsWithZeros(proof)
    /\ proof = compute_hash(b, S.lists)

\* C1: every block at position i >= 1 of the chain has previous_hash equal to
\* the hash of the block before it (positions of the model count from 1).
C1_Linkage ==
    \A i \in 2..Len(chain) : chain[i].previous_hash = chain[i - 1].hash

\* a chain of three blocks, the last one accepted from a caller of add_block
C1_Witness ==
    /\ Len(chain) >= 3
    /\ done.op = "add_block"
    /\ done.ok = "True"

\* C2: the stored hash of every block of the chain, genesis included, equals a
\* fresh compute_hash() of that block.
C2_HashIntegrity ==
    \A i \in 1..Len(chain) : chain[i].hash = compute_hash(chain[i], lists)

\* C3: the hash of every block appended by add_block (every position after the
\* genesis block) starts with `difficulty' characters '0'.
C3_Difficulty ==
    \A i \in 2..Len(chain) : StartsWithZeros(chain[i].hash)

\* mine has appended a block to a chain that already held an appended block
C3_Witness ==
    /\ Len(chain) >= 3
    /\ done.op = "mine"
    /\ done.ok = "True"

\* C4: add_block returns True if and only if, at the time of the call, the
\* block's previous_hash is the tail's hash, the proof starts with `difficulty'
\* zeros and the proof equals the block's recomputed digest; otherwise False.
C4_AddBlockResult ==
    /\ done.op = "add_block" =>
         /\ done.ret = (IF Accepts(done.arg, done.proof, done.pre) THEN PyTrue ELSE PyFalse)
         /\ done.ok = (IF done.ret = PyTrue THEN "True" ELSE "False")
    /\ \A t \in Threads :
         pc[t] = "mine_118" =>
           frame[t].ok =
             (IF Accepts(frame[t].arg, frame[t].proof, frame[t].pre) THEN "True" ELSE "False")

\* add_block has rejected a block linked to the tail with a proof that starts
\* with the zeros but is not the block's digest
C4_Witness ==
    /\ done.op = "add_block"
    /\ done.ret = PyFalse
    /\ StartsWithZeros(done.proof)
    /\ done.arg.previous_hash = done.pre.chain[Len(done.pre.chain)].hash

\* C5: when add_block returns False, the chain, the candidate block (no hash
\* assigned) and the pending pool are as they were before the call.
C5_AtomicRejection ==
    (done.op = "add_block" /\ done.ok = "False") =>
        /\ chain = done.pre.chain
        /\ done.block = done.arg
        /\ (done.at = 0 => done.block.hash = NoHash)
        /\ unconfirmed_transactions = done.pre.pool
        /\ lists = done.pre.lists

\* add_block has rejected a block whose previous_hash is not the tail's hash,
\* the chain holding more than the genesis block and the pool a transaction
C5_Witness ==
    /\ done.op = "add_block"
    /\ done.ok = "False"
    /\ done.arg.previous_hash # chain[Len(chain)].hash
    /\ Len(chain) >= 2
    /\ Pool # <<>>

\* C6: when add_block returns True, the chain is the old chain with the given
\* block appended, that block's hash set to proof; the pool and the blocks
\* accepted before are unchanged.
C6_AcceptFrame ==
    /\ (done.op = "add_block" /\ done.ok = "True") =>
         /\ chain = Append(done.pre.chain, [done.arg EXCEPT !.hash = done.proof])
         /\ done.block = chain[Len(chain)]
         /\ unconfirmed_transactions = done.pre.pool
         /\ lists = done.pre.lists
    /\ \A t \in Threads :
         (pc[t] = "mine_118" /\ frame[t].ok = "True") =>
           /\ chain = Append(frame[t].pre.chain,
                             [frame[t].arg EXCEPT !.hash = frame[t].proof])
           /\ unconfirmed_transactions = frame[t].pre.pool
           /\ lists = frame[t].pre.lists

\* add_block has accepted a caller's block onto a chain of two blocks, with a
\* transaction pending
C6_Witness ==
    /\ done.op = "add_block"
    /\ done.ok = "True"
    /\ Len(done.pre.chain) >= 2
    /\ Pool # <<>>

\* C7: run alone, mine() with a non-empty pool returns tail.index + 1, appends
\* exactly one block with that index, the old tail's hash as previous_hash and
\* the pool's contents at call time as transactions, and empties the pool.
C7_MineSuccess ==
    (done.op = "mine" /\ done.pre.lists[done.pre.pool] # <<>>) =>
        LET old == done.pre.chain
            tail == old[Len(old)]
        IN  /\ done.ret = PyInt(tail.index + 1)
            /\ Len(chain) = Len(old) + 1
            /\ SubSeq(chain, 1, Len(old)) = old
            /\ chain[Len(chain)].index = tail.index + 1
            /\ chain[Len(chain)].previous_hash = tail.hash
            /\ Transactions(chain[Len(chain)]) = done.pre.lists[done.pre.pool]
            /\ Pool = <<>>

\* mine has returned after mining two pending transactions onto a chain of two
C7_Witness ==
    /\ done.op = "mine"
    /\ done.ret.type = "int"
    /\ Len(done.snap) = 2
    /\ Len(chain) = 3

\* C8: mine() called with an empty pool returns False without running the
\* proof-of-work and leaves the chain and the pool unchanged.
C8_EmptyPool ==
    (done.op = "mine" /\ done.pre.lists[done.pre.pool] = <<>>) =>
        /\ done.ret = PyFalse
        /\ done.proof = NoHash
        /\ done.ok = "none"
        /\ chain = done.pre.chain
        /\ unconfirmed_transactions = done.pre.pool
        /\ lists = done.pre.lists

\* mine has returned False on an empty pool, the chain holding a mined block
C8_Witness ==
    /\ done.op = "mine"
    /\ done.ret = PyFalse
    /\ Len(chain) >= 2

\* C9: mine() clears the pool and returns the new block's index only if its
\* add_block call returned True; when that call returns False it leaves the
\* pool untouched and reports failure instead of an index.
C9_MineChecksAddBlock ==
    /\ \A t \in Threads : pc[t] = "mine_119" => frame[t].ok = "True"
    /\ (done.op = "mine" /\ done.ret.type = "int") => done.ok = "True"

\* C10: the transactions of the block mine() builds are the pool's contents at
\* the moment the block is constructed; a transaction submitted later, while
\* the proof-of-work or add_block of that mine() runs, never appears in it.
C10_PoolSnapshot ==
    /\ \A t \in Threads :
         pc[t] \in {"pow_52", "pow_55", "add_68", "add_76", "add_79", "add_80",
                    "mine_118", "mine_119"} =>
           Transactions(BlockOf(frame[t], chain)) = frame[t].snap
    /\ (done.op = "mine" /\ done.ok # "none") => Transactions(done.block) = done.snap

\* C11: every step leaves the chain unchanged or appends exactly one block at
\* its end, and no field (index, transactions, timestamp, previous_hash, nonce,
\* hash) of a block that is in the chain changes.
C11_AppendOnly ==
    [][ /\ \/ chain' = chain
           \/ \E b \in {chain'[Len(chain')]} : chain' = Append(chain, b)
        /\ \A i \in 1..Len(chain) :
             /\ chain'[i] = chain[i]
             /\ Contents(chain'[i].transactions, lists')
                  = Contents(chain[i].transactions, lists) ]_vars

\* C12: proof_of_work ignores the nonce the block has on entry; on return
\* block.nonce is the smallest n >= 0 for which the digest of the block's other
\* fields with nonce n starts with `difficulty' zeros, and the digest returned
\* is compute_hash() of the block with that nonce.
C12_ProofOfWork ==
    /\ done.op = "proof_of_work" =>
         /\ done.block = [done.arg EXCEPT !.nonce = done.block.nonce]
         /\ StartsWithZeros(done.proof)
         /\ done.proof = compute_hash(done.block, lists)
         /\ \A n \in 0..(done.block.nonce - 1) :
              ~StartsWithZeros(compute_hash([done.arg EXCEPT !.nonce = n], lists))
    /\ \A t \in Threads :
         (pc[t] = "add_68" /\ frame[t].op = "mine") =>
           /\ StartsWithZeros(frame[t].proof)
           /\ frame[t].proof = compute_hash(frame[t].block, lists)
           /\ \A n \in 0..(frame[t].block.nonce - 1) :
                ~StartsWithZeros(compute_hash([frame[t].block EXCEPT !.nonce = n], lists))

\* proof_of_work has returned with a nonce smaller than the one the block had
\* on entry, and greater than 0
C12_Witness ==
    /\ done.op = "proof_of_work"
    /\ done.arg.nonce > done.block.nonce
    /\ done.block.nonce > 0

\* no call has been made on the Blockchain since it was constructed
Fresh ==
    /\ submitted = <<>>
    /\ nmine = 0
    /\ nadd = 0

\* C13: a freshly constructed Blockchain has a chain of exactly one block and
\* an empty pool; that block has index 0, previous_hash "0", no transactions
\* and nonce 0, and chain[0] is that same block in every later state.
C13_Genesis ==
    /\ Fresh => (Len(chain) = 1 /\ Pool = <<>>)
    /\ chain[1].index = 0
    /\ chain[1].previous_hash = Sentinel
    /\ Transactions(chain[1]) = <<>>
    /\ chain[1].nonce = 0
    /\ chain[1].hash = compute_hash([chain[1] EXCEPT !.hash = NoHash], lists)
    /\ \A t \in Threads : frame[t].pre.chain # <<>> => frame[t].pre.chain[1] = chain[1]
    /\ done.pre.chain # <<>> => done.pre.chain[1] = chain[1]

\* a later state: a caller has tried to add the genesis block object again,
\* the chain holding a mined block
C13_Witness ==
    /\ done.op = "add_block"
    /\ done.at = 1
    /\ Len(chain) >= 2

\* C14: add_new_transaction(record) always succeeds and appends record as the
\* last element of the pool, keeping the earlier records in order and keeping
\* duplicates; it leaves the chain unchanged.
C14_Submission ==
    done.op = "add_new_transaction" =>
        /\ done.ret = PyNone
        /\ Pool = Append(done.pre.lists[done.pre.pool], submitted[Len(submitted)])
        /\ unconfirmed_transactions = done.pre.pool
        /\ chain = done.pre.chain

\* a record equal to the one pending has been submitted
C14_Witness ==
    /\ done.op = "add_new_transaction"
    /\ Len(Pool) = 2
    /\ Pool[1] = Pool[2]

\* C15: run alone, the add_block call that mine() makes on the block it built
\* never returns False: at that call the block's previous_hash is the tail's
\* hash and the proof passes is_valid_proof.
C15_MineBlockAccepted ==
    /\ \A t \in Threads :
         frame[t].op = "mine" =>
           /\ frame[t].ok # "False"
           /\ pc[t] = "add_68" =>
                /\ frame[t].block.previous_hash = chain[last_block].hash
                /\ is_valid_proof(frame[t].block, frame[t].proof, lists)
    /\ done.op = "mine" => done.ok # "False"

\* mine's call of add_block has returned True for a second mined block
C15_Witness ==
    /\ \E t \in Threads : pc[t] = "mine_118" /\ frame[t].ok = "True"
    /\ Len(chain) >= 3
    /\ nadd = 0

\* C16: when mine() invocations run concurrently, no submitted transaction is
\* included in more than one block of the chain (the mine-then-clear-pool
\* sequence is mutually exclusive).
C16_NoDoubleMining ==
    \A i, j \in 2..Len(chain) :
        (i # j /\ chain[i].transactions.id > 0) =>
            chain[i].transactions.id # chain[j].transactions.id

\* C17: under any interleaving of concurrent mine() invocations the chain never
\* holds two blocks with the same previous_hash.
C17_NoFork ==
    \A i, j \in 1..Len(chain) :
        i # j => chain[i].previous_hash # chain[j].previous_hash

\* C18: after any sequence of add_new_transaction, mine and add_block calls the
\* block at position i of the chain has index i (positions of the model count
\* from 1, so chain[i] has index i - 1).
C18_Index ==
    \A i \in 1..Len(chain) : chain[i].index = i - 1

\* the transactions of the blocks after the genesis block, in chain order
RECURSIVE Mined(_)
Mined(n) == IF n <= 1 THEN <<>> ELSE Mined(n - 1) \o Transactions(chain[n])

\* C19: after any sequence of add_new_transaction and mine calls run one at a
\* time, the transactions of chain[1], chain[2], ... followed by the pool are
\* exactly the submitted transactions, in submission order.
C19_Conservation ==
    AllIdle => Mined(Len(chain)) \o Pool = submitted

\* two blocks have been mined, each with one transaction, and none is pending
C19_Witness ==
    /\ AllIdle
    /\ Len(chain) = 3
    /\ Len(submitted) = 2
    /\ Pool = <<>>
    /\ done.op = "mine"

=============================================================================
